---- MODULE Spec2Model ----
(***************************************************************************)
(* A model of importmagic's symbol index (importmagic/index.py) and of the *)
(* import rewriter (importer.py).                                          *)
(*                                                                         *)
(* Representation.                                                         *)
(*  - A Python string is the sequence of its ASCII codes, so that          *)
(*    '.'.join, str.split('.') and string comparison are computed and not  *)
(*    assumed.  The keys of a node's children mapping are written as TLA+  *)
(*    strings; Chars gives the text of each key.                           *)
(*  - A float score is an integer number of hundredths (1.0 is 100, 0.25   *)
(*    is 25, 0.1 is 10).  The products score * scale of symbol_scores are  *)
(*    exact rationals [n, d] in lowest terms.                              *)
(*  - The SymbolIndex objects live in a heap H = [nodes, dicts]: nodes[i]  *)
(*    is the object with identity i, dicts[j] is a children mapping, and   *)
(*    nodes[i].tree names the mapping the object's _tree attribute refers  *)
(*    to, so that two objects can refer to one mapping (enter, line 245).  *)
(***************************************************************************)
EXTENDS Integers, Sequences, FiniteSets, TLC

VARIABLES
    index,   \* the heap holding the SymbolIndex tree; object 1 is the root
    stack,   \* the objects yielded by the enter() scopes that are open, innermost last
    last,    \* the operation performed last, with its arguments and its result
    ops      \* the number of operations that have changed the index or the scopes

vars == <<index, stack, last, ops>>

---------------------------------------------------------------------------
(* Bounds of the model.                                                    *)

\* the largest number of SymbolIndex objects ever constructed in one heap
MaxNodes == 6
\* the largest number of enter() scopes open at once
MaxStack == 2
\* the largest number of operations changing the index or the scopes in one run
MaxOps == 5
\* the largest number of SymbolIndex objects in a heap that index_file adds to
MaxFileNodes == 7

---------------------------------------------------------------------------
(* Python strings.                                                         *)

Dot == 46

Chars ==
    [k \in {"os", "path", "posixpath", "__future__", "__builtin__", "one", "two", "sys"} |->
        CASE k = "os"          -> <<111, 115>>
          [] k = "path"        -> <<112, 97, 116, 104>>
          [] k = "posixpath"   -> <<112, 111, 115, 105, 120, 112, 97, 116, 104>>
          [] k = "__future__"  -> <<95, 95, 102, 117, 116, 117, 114, 101, 95, 95>>
          [] k = "__builtin__" -> <<95, 95, 98, 117, 105, 108, 116, 105, 110, 95, 95>>
          [] k = "one"         -> <<111, 110, 101>>
          [] k = "two"         -> <<116, 119, 111>>
          [] k = "sys"         -> <<115, 121, 115>>]

\* the None of Python where a string is expected: no string holds the code -1
PyNone == <<-1>>

\* a < b for two strings (Python 2 compares str byte by byte)
RECURSIVE StrLess(_, _)
StrLess(a, b) ==
    IF b = <<>> THEN FALSE
    ELSE IF a = <<>> THEN TRUE
    ELSE IF Head(a) # Head(b) THEN Head(a) < Head(b)
    ELSE StrLess(Tail(a), Tail(b))

\* a < b for two values that are each a string or None (Python 2: None is
\* smaller than every string)
OptStrLess(a, b) ==
    IF a = PyNone THEN b # PyNone
    ELSE IF b = PyNone THEN FALSE
    ELSE StrLess(a, b)

RECURSIVE SplitAcc(_, _, _)
SplitAcc(s, cur, acc) ==
    IF s = <<>> THEN Append(acc, cur)
    ELSE IF Head(s) = Dot THEN SplitAcc(Tail(s), <<>>, Append(acc, cur))
    ELSE SplitAcc(Tail(s), Append(cur, Head(s)), acc)

\* s.split('.')
Split(s) == SplitAcc(s, <<>>, <<>>)

\* '.'.join(segs)
RECURSIVE Join(_)
Join(segs) ==
    IF segs = <<>> THEN <<>>
    ELSE IF Len(segs) = 1 THEN segs[1]
    ELSE segs[1] \o <<Dot>> \o Join(Tail(segs))

---------------------------------------------------------------------------
(* Exact arithmetic on scores.                                             *)

Abs(x) == IF x < 0 THEN -x ELSE x

RECURSIVE GCD(_, _)
GCD(a, b) == IF b = 0 THEN a ELSE GCD(b, a % b)

Rat(n, d) ==
    LET g == GCD(Abs(n), Abs(d))
        s == IF d < 0 THEN -1 ELSE 1
    IN  [n |-> (s * n) \div g, d |-> (s * d) \div g]

\* the float written as h hundredths
Float(h) == Rat(h, 100)

RMul(a, b) == Rat(a.n * b.n, a.d * b.d)
RSub(a, b) == Rat(a.n * b.d - b.n * a.d, a.d * b.d)
RLess(a, b) == a.n * b.d < b.n * a.d

---------------------------------------------------------------------------
(* The SymbolIndex heap.                                                   *)

Root == 1

\* os.path.__name__ on a POSIX build, the physical module of PACKAGE_ALIASES
PhysicalPathModule == "posixpath"

\* _PACKAGE_ALIASES: the physical module's path mapped to (alias path, score)
AliasScore == 120
AliasPath == <<"os", "path">>

\* enter()'s default score, and the scores SymbolVisitor records
DefaultScore == 100
ImportScore == 25
ExportScore == 100

\* the cut of score_walk: a match scoring 0.1 or less is not recorded
NoiseThreshold == 10

EmptyDict == [k \in {} |-> 0]

\* the two variants of a child slot, and the None that dict.get returns
LeafVal(s) == [kind |-> "leaf", val |-> s]
NodeVal(i) == [kind |-> "node", val |-> i]
NoneVal == [kind |-> "none", val |-> 0]

Put(d, k, v) == [x \in DOMAIN d \cup {k} |-> IF x = k THEN v ELSE d[x]]
Restrict(d, keys) == [x \in keys |-> d[x]]
Remove(d, k) == Restrict(d, DOMAIN d \ {k})

\* dict.get(k) for a key given by name
Get(d, k) == IF k \in DOMAIN d THEN d[k] ELSE NoneVal

\* dict.get(seg) for a key given as text
GetText(d, seg) ==
    IF \E k \in DOMAIN d : Chars[k] = seg
    THEN d[CHOOSE k \in DOMAIN d : Chars[k] = seg]
    ELSE NoneVal

\* self._tree of the object i
TreeOf(H, i) == H.dicts[H.nodes[i].tree]

\* SymbolIndex.__init__ with a parent: the attributes of a new object, whose
\* _tree is a new empty mapping
NewNode(H, name, parent, score, location) ==
    [nodes |-> Append(H.nodes,
                      [name |-> name, parent |-> parent, score |-> score,
                       location |-> location, exports |-> EmptyDict,
                       tree |-> Len(H.dicts) + 1]),
     dicts |-> Append(H.dicts, EmptyDict)]

\* SymbolIndex.path: the names from the root down to i, joined by dots
RECURSIVE PathNames(_, _)
PathNames(H, i) ==
    IF i = 0 \/ H.nodes[i].name = "" THEN <<>>
    ELSE Append(PathNames(H, H.nodes[i].parent), Chars[H.nodes[i].name])

path(H, i) == Join(PathNames(H, i))

\* SymbolIndex.find, from the root: the object at path, or 0 for None
RECURSIVE FindFrom(_, _, _)
FindFrom(H, node, names) ==
    IF names = <<>> THEN node
    ELSE LET sub == GetText(TreeOf(H, node), Head(names))
         IN  IF sub.kind # "node" THEN 0
             ELSE FindFrom(H, sub.val, Tail(names))

find(H, dotted) == FindFrom(H, Root, Split(dotted))

\* the test of SymbolIndex.add, score > current_score.  CPython 2 orders a
\* float below every object that is not a number, so the test is false when
\* the slot holds a nested SymbolIndex.
ScoreGreater(score, current) == current.kind = "leaf" /\ score > current.val

\* add with the test of line 231 left out: the new score is always stored
add_overwrites(H, self, name, score) ==
    [H EXCEPT !.dicts[H.nodes[self].tree] = Put(@, name, LeafVal(score))]

\* SymbolIndex.add
add(H, self, name, score) ==
    LET d == TreeOf(H, self)
        current_score == IF name \in DOMAIN d THEN d[name] ELSE LeafVal(0)
    IN  IF ScoreGreater(score, current_score)
        THEN [H EXCEPT !.dicts[H.nodes[self].tree] = Put(@, name, LeafVal(score))]
        ELSE H

\* SymbolIndex.add_explicit_export
add_explicit_export(H, self, name, score) ==
    [H EXCEPT !.nodes[self].exports = Put(@, name, score)]

\* SymbolIndex.enter up to its yield, for a name that is not None: the heap,
\* the object yielded, and whether line 245 raised AttributeError (find
\* returned None) after the new object was stored
EnterHead(H, self, name, location, score) ==
    LET tree == Get(TreeOf(H, self), name)
    IN  IF tree.kind = "node"
        THEN [H |-> H, tree |-> tree.val, raised |-> FALSE]
        ELSE LET id == Len(H.nodes) + 1
                 H0 == NewNode(H, name, self, score, location)
                 H1 == [H0 EXCEPT !.dicts[H.nodes[self].tree] = Put(@, name, NodeVal(id))]
             IN  IF path(H1, id) = Chars[PhysicalPathModule]
                 THEN LET alias == find(H1, Join(<<Chars[AliasPath[1]], Chars[AliasPath[2]]>>))
                      IN  IF alias = 0
                          THEN [H |-> H1, tree |-> id, raised |-> TRUE]
                          ELSE [H |-> [H1 EXCEPT !.nodes[alias].tree = H1.nodes[id].tree],
                                tree |-> id, raised |-> FALSE]
                 ELSE [H |-> H1, tree |-> id, raised |-> FALSE]

\* enter after its yield with the set difference of line 249 taken the wrong
\* way round: the exported children are the ones deleted
EnterTailDeletesExported(H, tree) ==
    LET exports == H.nodes[tree].exports
    IN  IF DOMAIN exports # {}
        THEN [H EXCEPT !.dicts[H.nodes[tree].tree] =
                            Restrict(@, DOMAIN @ \ DOMAIN exports)]
        ELSE H

\* SymbolIndex.enter after its yield: the unexported children are deleted
\* when tree._exports is not empty
EnterTail(H, tree) ==
    LET exports == H.nodes[tree].exports
    IN  IF DOMAIN exports # {}
        THEN [H EXCEPT !.dicts[H.nodes[tree].tree] =
                            Restrict(@, DOMAIN @ \cap DOMAIN exports)]
        ELSE H

\* with self.enter(name, ...): pass
EnterPass(H, self, name, location, score) ==
    LET e == EnterHead(H, self, name, location, score)
    IN  EnterTail(e.H, e.tree)

\* SymbolIndex() with no parent: the root, _merge_aliases, and the two
\* pseudo-modules
EmptyHeap ==
    [nodes |-> << [name |-> "", parent |-> 0, score |-> DefaultScore, location |-> "3",
                   exports |-> EmptyDict, tree |-> 1] >>,
     dicts |-> << EmptyDict >>]

merge_aliases(H) ==
    LET e1 == EnterHead(H, Root, AliasPath[1], "S", DefaultScore)
        e2 == EnterHead(e1.H, e1.tree, AliasPath[2], "S", AliasScore)
    IN  EnterTail(EnterTail(e2.H, e2.tree), e1.tree)

NewIndex ==
    EnterPass(EnterPass(merge_aliases(EmptyHeap), Root, "__future__", "F", DefaultScore),
              Root, "__builtin__", "S", DefaultScore)

\* SymbolIndex.index_source: SymbolVisitor visits the top-level declarations
\* of a parsed source in order.  An import adds its name at 0.25, a def, a
\* class or an assignment adds its name at 1.0, and a string of a list
\* assigned to __all__ is an explicit export.
RECURSIVE index_source(_, _, _)
index_source(H, self, decls) ==
    IF decls = <<>> THEN H
    ELSE LET d == Head(decls)
             H1 == CASE d.kind = "import" -> add(H, self, d.name, ImportScore)
                    []  d.kind = "def" -> add(H, self, d.name, DefaultScore)
                    []  d.kind = "all" -> add_explicit_export(H, self, d.name, ExportScore)
         IN  index_source(H1, self, Tail(decls))

\* index_file with the source indexed into self, not into the subtree entered
index_file_into_self(H, self, module, location, decls) ==
    LET e == EnterHead(H, self, module, location, DefaultScore)
    IN  IF e.raised
        THEN [H |-> e.H, tree |-> e.tree, raised |-> TRUE]
        ELSE [H |-> EnterTail(index_source(e.H, self, decls), e.tree),
              tree |-> e.tree, raised |-> FALSE]

\* SymbolIndex.index_file for a file that is not blacklisted: the module is
\* entered, its source is indexed into the subtree, and the scope exits.  An
\* AttributeError of enter leaves the function before the source is read.
index_file(H, self, module, location, decls) ==
    LET e == EnterHead(H, self, module, location, DefaultScore)
    IN  IF e.raised
        THEN [H |-> e.H, tree |-> e.tree, raised |-> TRUE]
        ELSE [H |-> EnterTail(index_source(e.H, e.tree, decls), e.tree),
              tree |-> e.tree, raised |-> FALSE]

---------------------------------------------------------------------------
(* SymbolIndex.symbol_scores.                                              *)

\* SymbolIndex._score_key: the matched path (PyNone marks the place of a
\* leaf) and the score, in hundredths
RECURSIVE score_key(_, _, _)
score_key(H, scope, key) ==
    IF key = <<>> THEN [path |-> <<>>, score |-> 0]
    ELSE LET value == GetText(TreeOf(H, scope), Head(key))
         IN  IF value.kind = "none" THEN [path |-> <<>>, score |-> 0]
             ELSE IF value.kind = "leaf"
                  THEN [path |-> <<PyNone, Head(key)>>, score |-> value.val]
             ELSE LET r == score_key(H, value.val, Tail(key))
                  IN  [path |-> <<Head(key)>> \o r.path,
                       score |-> r.score + H.nodes[value.val].score]

\* sub_path.index(None), or 0 for ValueError
IndexOfNone(sub_path) ==
    IF \E i \in 1..Len(sub_path) : sub_path[i] = PyNone
    THEN CHOOSE i \in 1..Len(sub_path) :
            sub_path[i] = PyNone /\ \A j \in 1..(i - 1) : sub_path[j] # PyNone
    ELSE 0

\* the tuple score_walk appends for a match found in a scope reached by path
Match(scale, walked, sk) ==
    LET i == IndexOfNone(sk.path)
        sub_path == IF i = 0 THEN sk.path ELSE SubSeq(sk.path, 1, i - 1)
        from_symbol == IF i = 0 THEN PyNone
                       ELSE Join(SubSeq(sk.path, i + 1, Len(sk.path)))
    IN  [score |-> RMul(Float(sk.score), scale),
         package |-> Join(walked \o sub_path),
         member |-> from_symbol]

\* the scale of a nested scope with the decay of line 176 left out
ChildScaleNoDecay(score, scale) == RMul(Float(score), scale)

\* the scale score_walk gives to a nested scope
ChildScale(score, scale) == RSub(RMul(Float(score), scale), Float(NoiseThreshold))

\* score_walk: the tuples appended to scores for scope and for every scope
\* nested in it.  The order of dict.items() is not modelled: symbol_scores
\* sorts the list, and the order on the tuples is total.
RECURSIVE score_walk(_, _, _, _, _), WalkItems(_, _, _, _, _, _)
score_walk(H, scope, scale, walked, full_key) ==
    LET sk == score_key(H, scope, full_key)
        here == IF sk.score > NoiseThreshold THEN <<Match(scale, walked, sk)>> ELSE <<>>
    IN  here \o WalkItems(H, scope, DOMAIN TreeOf(H, scope), scale, walked, full_key)

WalkItems(H, scope, keys, scale, walked, full_key) ==
    IF keys = {} THEN <<>>
    ELSE LET key == CHOOSE k \in keys : TRUE
             subscope == TreeOf(H, scope)[key]
             rest == WalkItems(H, scope, keys \ {key}, scale, walked, full_key)
         IN  IF subscope.kind = "node"
             THEN score_walk(H, subscope.val,
                             ChildScale(H.nodes[subscope.val].score, scale),
                             Append(walked, Chars[key]), full_key) \o rest
             ELSE rest

\* a < b for two tuples (score, package, member), as Python compares tuples
TupleLess(a, b) ==
    IF a.score # b.score THEN RLess(a.score, b.score)
    ELSE IF a.package # b.package THEN StrLess(a.package, b.package)
    ELSE OptStrLess(a.member, b.member)

\* list.sort() without reverse=True: the tuples in their natural order
RECURSIVE InsertForward(_, _), SortForward(_)
InsertForward(t, sorted) ==
    IF sorted = <<>> THEN <<t>>
    ELSE IF TupleLess(t, Head(sorted)) THEN <<t>> \o sorted
    ELSE <<Head(sorted)>> \o InsertForward(t, Tail(sorted))

SortForward(scores) ==
    IF scores = <<>> THEN <<>>
    ELSE InsertForward(Head(scores), SortForward(Tail(scores)))

\* list.sort(reverse=True), by insertion
RECURSIVE InsertReverse(_, _), SortReverse(_)
InsertReverse(t, sorted) ==
    IF sorted = <<>> THEN <<t>>
    ELSE IF TupleLess(Head(sorted), t) THEN <<t>> \o sorted
    ELSE <<Head(sorted)>> \o InsertReverse(t, Tail(sorted))

SortReverse(scores) ==
    IF scores = <<>> THEN <<>>
    ELSE InsertReverse(Head(scores), SortReverse(Tail(scores)))

\* SymbolIndex.symbol_scores, called on the root
symbol_scores(H, symbol) ==
    SortReverse(score_walk(H, Root, Float(100), <<>>, Split(symbol)))

\* SymbolIndex.location_for: the loop looks every segment up in node._tree,
\* and node stays the root
RECURSIVE LocationLoop(_, _, _, _)
LocationLoop(H, node, location, names) ==
    IF names = <<>> THEN location
    ELSE LET tree == GetText(TreeOf(H, node), Head(names))
         IN  IF tree.kind # "node" THEN location
             ELSE LocationLoop(H, node, H.nodes[tree.val].location, Tail(names))

location_for(H, dotted) == LocationLoop(H, Root, H.nodes[Root].location, Split(dotted))

---------------------------------------------------------------------------
(* JSONEncoder.default and SymbolIndex.deserialize.                        *)

\* the values of a JSON document
JNum(x) == [kind |-> "num", num |-> x, str |-> "", obj |-> EmptyDict]
JStr(x) == [kind |-> "str", num |-> 0, str |-> x, obj |-> EmptyDict]
JObj(o) == [kind |-> "obj", num |-> 0, str |-> "", obj |-> o]

\* JSONEncoder.default, applied by json.dumps to a SymbolIndex and to every
\* SymbolIndex among its children: a copy of _tree with the two serialized
\* attributes added
RECURSIVE default(_, _)
default(H, o) ==
    LET tree == TreeOf(H, o)
    IN  [k \in DOMAIN tree \cup {".score", ".location"} |->
            IF k = ".score" THEN JNum(H.nodes[o].score)
            ELSE IF k = ".location" THEN JStr(H.nodes[o].location)
            ELSE IF tree[k].kind = "node" THEN JObj(default(H, tree[k].val))
            ELSE JNum(tree[k].val)]

\* SymbolIndex.serialize followed by json.load: the document read back
serialize(H) == default(H, Root)

\* the orders in which load may meet the keys of one JSON object (dict.items()
\* promises none).  Only the order of os and of the physical path module
\* matters to load: entering the latter under the root rebinds os.path._tree.
ItemOrders ==
    { <<"__builtin__", "__future__", "os", "posixpath", "path", "one", "two">>,
      <<"__builtin__", "__future__", "posixpath", "os", "path", "one", "two">> }

\* deserialize's load(tree, data, parent_location), the items of data taken
\* in the order of the sequence keys: the heap, and whether enter raised
RECURSIVE load(_, _, _, _, _, _)
load(H, tree, data, parent_location, keys, order) ==
    IF keys = <<>> THEN [H |-> H, raised |-> FALSE]
    ELSE LET key == Head(keys)
         IN  IF key \notin DOMAIN data
             THEN load(H, tree, data, parent_location, Tail(keys), order)
             ELSE LET value == data[key]
                  IN  IF value.kind = "obj"
                      THEN LET score == IF ".score" \in DOMAIN value.obj
                                        THEN value.obj[".score"].num ELSE DefaultScore
                               location == IF ".location" \in DOMAIN value.obj
                                           THEN value.obj[".location"].str
                                           ELSE parent_location
                               rest == Remove(Remove(value.obj, ".score"), ".location")
                               e == EnterHead(H, tree, key, location, score)
                           IN  IF e.raised THEN [H |-> e.H, raised |-> TRUE]
                               ELSE LET inner == load(e.H, e.tree, rest, location, order, order)
                                    IN  IF inner.raised THEN inner
                                        ELSE load(EnterTail(inner.H, e.tree), tree, data,
                                                  parent_location, Tail(keys), order)
                      ELSE load(add(H, tree, key, value.num), tree, data,
                                parent_location, Tail(keys), order)

\* SymbolIndex.deserialize
deserialize(data, order) ==
    load(NewIndex, Root, Remove(Remove(data, ".location"), ".score"), "L", order, order)

---------------------------------------------------------------------------
(* importer.py.  A source text is the sequence of its lines; a line is an  *)
(* import statement, a from-import statement, or other text: code, a       *)
(* comment, a docstring or a blank line.  A name pair is (name, asname),   *)
(* asname "" standing for None.                                            *)

ImportLine(names) == [kind |-> "import", module |-> "", names |-> names, text |-> ""]
FromLine(module, names) == [kind |-> "from", module |-> module, names |-> names, text |-> ""]
TextLine(kind, text) == [kind |-> kind, module |-> "", names |-> <<>>, text |-> text]
BlankLine == TextLine("blank", "")

Pair(name, asname) == [name |-> name, asname |-> asname]

\* Imports.__init__
FirstLineDefault == 9999
NewImports ==
    [imports |-> <<>>, imports_from |-> EmptyDict,
     first_line |-> FirstLineDefault, last_line |-> 0]

Min(a, b) == IF a < b THEN a ELSE b
Max(a, b) == IF a > b THEN a ELSE b

\* Imports._update_line_nos
update_line_nos(imports, line_no) ==
    [imports EXCEPT !.first_line = Min(@, line_no), !.last_line = Max(@, line_no)]

\* Imports.add_import, once for each name of an import statement
RECURSIVE add_import(_, _, _)
add_import(imports, names, line_no) ==
    IF names = <<>> THEN imports
    ELSE add_import(update_line_nos([imports EXCEPT !.imports = Append(@, Head(names))],
                                    line_no),
                    Tail(names), line_no)

\* Imports.add_import_from, once for each name of a from-import statement
RECURSIVE add_import_from(_, _, _, _)
add_import_from(imports, module, names, line_no) ==
    IF names = <<>> THEN imports
    ELSE LET old == IF module \in DOMAIN imports.imports_from
                    THEN imports.imports_from[module] ELSE <<>>
         IN  add_import_from(
                 update_line_nos([imports EXCEPT !.imports_from =
                                      Put(@, module, Append(old, Head(names)))], line_no),
                 module, Tail(names), line_no)

\* ImportFinder.visit over the parsed source: the statements in line order
RECURSIVE ImportFinder(_, _, _)
ImportFinder(imports, src, line_no) ==
    IF line_no > Len(src) THEN imports
    ELSE LET line == src[line_no]
             next == IF line.kind = "import" THEN add_import(imports, line.names, line_no)
                     ELSE IF line.kind = "from"
                          THEN add_import_from(imports, line.module, line.names, line_no)
                     ELSE imports
         IN  ImportFinder(next, src, line_no + 1)

\* a < b for two (name, alias) tuples
PairLess(a, b) ==
    IF a.name # b.name THEN StrLess(Chars[a.name], Chars[b.name])
    ELSE IF a.asname = b.asname THEN FALSE
    ELSE IF a.asname = "" THEN TRUE
    ELSE IF b.asname = "" THEN FALSE
    ELSE StrLess(Chars[a.asname], Chars[b.asname])

\* list.sort() of self.imports, by insertion
RECURSIVE InsertPair(_, _), SortPairs(_)
InsertPair(t, sorted) ==
    IF sorted = <<>> THEN <<t>>
    ELSE IF PairLess(t, Head(sorted)) THEN <<t>> \o sorted
    ELSE <<Head(sorted)>> \o InsertPair(t, Tail(sorted))

SortPairs(pairs) ==
    IF pairs = <<>> THEN <<>>
    ELSE InsertPair(pairs[Len(pairs)], SortPairs(SubSeq(pairs, 1, Len(pairs) - 1)))

\* the from-import lines of imports_as_source, for the modules in sorted order
RECURSIVE FromLines(_, _)
FromLines(imports_from, modules) ==
    IF modules = {} THEN <<>>
    ELSE LET module == CHOOSE m \in modules :
                           \A o \in modules : o = m \/ StrLess(Chars[m], Chars[o])
         IN  <<FromLine(module, imports_from[module])>>
                 \o FromLines(imports_from, modules \ {module})

\* Imports.imports_as_source: one line for each plain import, then one for
\* each module imported from
imports_as_source(imports) ==
    LET sorted == SortPairs(imports.imports)
    IN  [i \in 1..Len(sorted) |-> ImportLine(<<sorted[i]>>)]
            \o FromLines(imports.imports_from, DOMAIN imports.imports_from)

\* Imports.replace_imports: lines[first_line - 1:last_line] = ..., with the
\* clamping Python applies to the bounds of a slice
replace_imports(imports, source) ==
    LET start == Min(imports.first_line - 1, Len(source))
        stop == Max(Min(imports.last_line, Len(source)), start)
    IN  SubSeq(source, 1, start) \o imports_as_source(imports)
            \o SubSeq(source, stop + 1, Len(source))

\* update_imports(src, st, symbols, index).  Line 76 unpacks scores[0], a
\* tuple of three, into two names: ValueError, for the first symbol that
\* has a candidate.  Lines 78 to 81 are never reached.
update_imports(src, symbols, H) ==
    LET imports == ImportFinder(NewImports, src, 1)
    IN  IF \E symbol \in symbols : symbol_scores(H, symbol) # <<>>
        THEN [raised |-> "ValueError", text |-> <<>>]
        ELSE [raised |-> "", text |-> replace_imports(imports, src)]

---------------------------------------------------------------------------
(* The inputs of the operations.                                           *)

\* the text of a dotted name
Text(names) == Join([i \in 1..Len(names) |-> Chars[names[i]]])

EnterNames == {"os", "path", "posixpath"}
\* enter's default location
EnterLocations == {"L"}
\* enter's default score, and a lower one as deserialize may pass from a file
EnterScores == {25, DefaultScore}
AddNames == {"one", "path"}
\* the names added where symbol_scores is checked
ScoredNames == {"one"}
\* the scores SymbolVisitor and index_builtin pass to add
AddScores == {ImportScore, DefaultScore}
ExportNames == {"one"}

\* the symbols looked up
Queries ==
    { Text(<<"one">>), Text(<<"os", "path">>), Text(<<"os", "one">>),
      Text(<<"os", "path", "one">>) }

\* the paths whose location is asked for
LocationPaths ==
    { Text(<<"os", "path">>), Text(<<"os", "__future__">>), Text(<<"path", "os">>) }

\* the rewrites asked for: a source text with the unresolved references and
\* the unreferenced names the analyzer reports for it.  A call alone, an
\* unused import before a function, and a preamble of comment and docstring
\* before a function.
Rewrites ==
    { [src |-> << TextLine("code", "print os.one('/')") >>,
       symbols |-> {Text(<<"os", "one">>)}, unreferenced |-> {}],
      [src |-> << ImportLine(<<Pair("sys", "")>>), BlankLine,
                  TextLine("code", "def func(n):"), TextLine("code", "    print one(n)") >>,
       symbols |-> {Text(<<"one">>)}, unreferenced |-> {"sys"}],
      [src |-> << TextLine("comment", "# Comment"), BlankLine,
                  TextLine("docstring", "'Docstring'"), BlankLine,
                  TextLine("code", "def func(n):"), TextLine("code", "    print one(n)") >>,
       symbols |-> {Text(<<"one">>)}, unreferenced |-> {}] }

\* a top-level declaration of a source file
Decl(kind, name) == [kind |-> kind, name |-> name]

\* the sources indexed: a def alone, and an import, a def and an __all__
\* that names the def
ModuleSources ==
    { << Decl("def", "one") >>,
      << Decl("import", "path"), Decl("def", "one"), Decl("all", "one") >> }

---------------------------------------------------------------------------
(* The state machine.                                                      *)

\* the object the running code holds: the subtree of the innermost open
\* scope, or the root
Current == IF stack = <<>> THEN Root ELSE stack[Len(stack)]

\* one more operation has changed the index or the scopes
Step == ops < MaxOps /\ ops' = ops + 1

Init ==
    /\ index = NewIndex
    /\ stack = <<>>
    /\ last = [op |-> "init"]
    /\ ops = 0

\* with Current.enter(name, location, score) as subtree: the scope opens.  When
\* enter raises, the exception leaves the open scopes it passes through, down
\* to the one whose code handles it, and none of them is pruned.
Enter(name, location, score) ==
    /\ Step
    /\ Len(stack) < MaxStack
    /\ \/ Get(TreeOf(index, Current), name).kind = "node"
       \/ Len(index.nodes) < MaxNodes
    /\ LET e == EnterHead(index, Current, name, location, score)
       IN  /\ index' = e.H
           /\ IF e.raised
              THEN \E keep \in 0..Len(stack) :
                      /\ stack' = SubSeq(stack, 1, keep)
                      /\ last' = [op |-> "enter", node |-> e.tree, raised |-> TRUE,
                                  unwound |-> {stack[i] : i \in (keep + 1)..Len(stack)}]
              ELSE /\ stack' = Append(stack, e.tree)
                   /\ last' = [op |-> "enter", node |-> e.tree, raised |-> FALSE,
                               unwound |-> {}]

\* with Current.enter(None) as subtree: the scope yields Current itself
EnterNone ==
    /\ Step
    /\ Len(stack) < MaxStack
    /\ stack' = Append(stack, Current)
    /\ last' = [op |-> "enter", node |-> Current, raised |-> FALSE, unwound |-> {}]
    /\ UNCHANGED index

\* Current.add(name, score).  last records the slot before the call and, when
\* the call before was an add of the same name to the same object, that
\* call's score and the slot before it.
Add(name, score) ==
    LET chained == last.op = "add" /\ last.node = Current /\ last.name = name
    IN  /\ Step
        /\ index' = add(index, Current, name, score)
        /\ last' = [op |-> "add", node |-> Current, name |-> name, score |-> score,
                    before |-> Get(TreeOf(index, Current), name),
                    chained |-> chained,
                    score1 |-> IF chained THEN last.score ELSE 0,
                    before1 |-> IF chained THEN last.before ELSE NoneVal]
        /\ UNCHANGED stack

\* Current.add_explicit_export(name, 1.0), as SymbolVisitor.visit_Assign calls it
Export(name) ==
    /\ Step
    /\ index' = add_explicit_export(index, Current, name, ExportScore)
    /\ last' = [op |-> "add_explicit_export", node |-> Current, name |-> name]
    /\ UNCHANGED stack

\* the body of the innermost with statement ends: enter resumes after its yield
Exit ==
    /\ Step
    /\ stack # <<>>
    /\ index' = EnterTail(index, Current)
    /\ stack' = SubSeq(stack, 1, Len(stack) - 1)
    /\ last' = [op |-> "exit", node |-> Current, before |-> TreeOf(index, Current)]

\* the body of the innermost with statement raises: the exception is thrown
\* into enter at its yield, which does not catch it, and leaves the open
\* scopes down to the one whose code handles it
Raise ==
    /\ Step
    /\ stack # <<>>
    /\ \E keep \in 0..(Len(stack) - 1) :
          /\ stack' = SubSeq(stack, 1, keep)
          /\ last' = [op |-> "raise",
                      unwound |-> {stack[i] : i \in (keep + 1)..Len(stack)}]
    /\ UNCHANGED index

\* index.symbol_scores(symbol)
SymbolScores(symbol) ==
    /\ last' = [op |-> "symbol_scores", symbol |-> symbol,
                scores |-> symbol_scores(index, symbol)]
    /\ UNCHANGED <<index, stack, ops>>

\* index.location_for(path)
LocationFor(dotted) ==
    /\ last' = [op |-> "location_for", path |-> dotted,
                location |-> location_for(index, dotted)]
    /\ UNCHANGED <<index, stack, ops>>

\* the index is written out and read back: index = deserialize(serialize())
Deserialize(order) ==
    /\ Step
    /\ stack = <<>>
    /\ LET r == deserialize(serialize(index), order)
       IN  /\ index' = IF r.raised THEN index ELSE r.H
           /\ last' = [op |-> "deserialize", raised |-> r.raised, source |-> index]
    /\ UNCHANGED stack

\* update_imports(src, ast.parse(src), symbols, index); unreferenced is the
\* analyzer's second result, which the function has no parameter for
UpdateImports(src, symbols, unreferenced) ==
    /\ last' = [op |-> "update_imports", src |-> src, symbols |-> symbols,
                unreferenced |-> unreferenced,
                result |-> update_imports(src, symbols, index)]
    /\ UNCHANGED <<index, stack, ops>>

\* the operations that change the index or the scopes
Update ==
    \/ \E name \in EnterNames, location \in EnterLocations, score \in EnterScores :
          Enter(name, location, score)
    \/ EnterNone
    \/ \E name \in AddNames, score \in AddScores : Add(name, score)
    \/ \E name \in ExportNames : Export(name)
    \/ Exit
    \/ Raise
    \/ \E order \in ItemOrders : Deserialize(order)

Next ==
    \/ Update
    \/ \E symbol \in Queries : SymbolScores(symbol)
    \/ \E dotted \in LocationPaths : LocationFor(dotted)
    \/ \E job \in Rewrites : UpdateImports(job.src, job.symbols, job.unreferenced)

\* every operation
Spec == Init /\ [][Next]_vars

\* the operations that build the index
NextIndex == Update

SpecIndex == Init /\ [][NextIndex]_vars

\* the operations that build a tree of modules and names, and symbol_scores
NextScores ==
    \/ \E name \in EnterNames, location \in EnterLocations, score \in EnterScores :
          Enter(name, location, score)
    \/ \E name \in ScoredNames, score \in AddScores : Add(name, score)
    \/ Exit
    \/ \E symbol \in Queries : SymbolScores(symbol)

SpecScores == Init /\ [][NextScores]_vars

\* Current.index_file(module, filename), decls being what the file declares.
\* last records the index before the call.
IndexFile(module, location, decls) ==
    /\ Step
    /\ \/ Get(TreeOf(index, Current), module).kind = "node"
       \/ Len(index.nodes) < MaxFileNodes
    /\ LET r == index_file(index, Current, module, location, decls)
       IN  /\ index' = r.H
           /\ \E keep \in 0..Len(stack) :
                 /\ r.raised \/ keep = Len(stack)
                 /\ stack' = SubSeq(stack, 1, keep)
           /\ last' = [op |-> "index_file", self |-> Current, node |-> r.tree,
                       name |-> module, raised |-> r.raised, before |-> index]

\* the operations that index files and packages: index_path enters a
\* package and indexes the files in it
NextModule ==
    \/ \E name \in EnterNames, location \in EnterLocations :
          Enter(name, location, DefaultScore)
    \/ Exit
    \/ \E module \in EnterNames, location \in EnterLocations, decls \in ModuleSources :
          IndexFile(module, location, decls)

SpecModule == Init /\ [][NextModule]_vars

---------------------------------------------------------------------------
(* The claims.                                                             *)

\* the heap with the slot name of the object node set back to slot
WithSlot(H, node, name, slot) ==
    [H EXCEPT !.dicts[H.nodes[node].tree] =
         IF slot.kind = "none" THEN Remove(@, name) ELSE Put(@, name, slot)]

\* C1: after add(name, s1) and then add(name, s2) on one object, the score
\* stored for name is max(s1, s2) when name was not stored before, and in
\* no case lower than a score stored before (it is the largest of the three);
\* a nested object stored under name stays; and the two calls made in the
\* opposite order leave the same tree.
C1_AddKeepsMax ==
    (last.op = "add" /\ last.chained) =>
        LET s1 == last.score1
            s2 == last.score
            stored0 == last.before1
            stored == Get(TreeOf(index, last.node), last.name)
            H0 == WithSlot(index, last.node, last.name, stored0)
        IN  /\ stored0.kind = "none" => stored = LeafVal(Max(s1, s2))
            /\ stored0.kind = "leaf" => stored = LeafVal(Max(stored0.val, Max(s1, s2)))
            /\ stored0.kind = "node" => stored = stored0
            /\ add(add(H0, last.node, last.name, s2), last.node, last.name, s1) = index

\* C1, its case reached: a name not stored before is added with one score
\* and then with a lower one
C1_Witness ==
    /\ last.op = "add"
    /\ last.chained
    /\ last.before1.kind = "none"
    /\ last.score < last.score1

C3_RoundTripKeepsScores ==
    (last.op = "deserialize" /\ ~last.raised) =>
        \A q \in Queries : symbol_scores(index, q) = symbol_scores(last.source, q)

\* the number of leading lines of a source that are comment, docstring or blank
PreambleLen(src) ==
    LET Leading(p) == \A i \in 1..p : src[i].kind \in {"comment", "docstring", "blank"}
    IN  CHOOSE p \in 0..Len(src) :
            Leading(p) /\ \A r \in (p + 1)..Len(src) : ~Leading(r)

IsImport(line) == line.kind \in {"import", "from"}

\* the names a line of import statements binds
BoundNames(line) ==
    { IF line.names[i].asname # "" THEN line.names[i].asname ELSE line.names[i].name :
        i \in 1..Len(line.names) }

\* C4: when update_imports is applied to a source with no import statement
\* and an unresolved reference has a candidate in the index, the result is
\* the preamble, then the synthesized import block, then a blank-line
\* separator, then every other original line unchanged and in order.
C4_InsertsBlockBeforeCode ==
    ( /\ last.op = "update_imports"
      /\ \A i \in 1..Len(last.src) : ~IsImport(last.src[i])
      /\ \E symbol \in last.symbols : symbol_scores(index, symbol) # <<>> ) =>
        LET text == last.result.text
            p == PreambleLen(last.src)
            added == Len(text) - Len(last.src)
        IN  /\ last.result.raised = ""
            /\ added >= 2
            /\ SubSeq(text, 1, p) = SubSeq(last.src, 1, p)
            /\ SubSeq(text, p + added + 1, Len(text)) = SubSeq(last.src, p + 1, Len(last.src))
            /\ \E n \in 1..(added - 1) :
                  /\ \A i \in (p + 1)..(p + n) : IsImport(text[i])
                  /\ \A i \in (p + n + 1)..(p + added) : text[i] = BlankLine

\* C5: in every rewrite no import statement of the result binds a name of
\* the unreferenced set, and an import is synthesized when an unresolved
\* reference has a candidate.
C5_DropsUnreferencedImports ==
    ( /\ last.op = "update_imports"
      /\ \E i \in 1..Len(last.src) :
            IsImport(last.src[i]) /\ BoundNames(last.src[i]) \cap last.unreferenced # {} ) =>
        LET text == last.result.text
        IN  /\ last.result.raised = ""
            /\ \A i \in 1..Len(text) :
                  IsImport(text[i]) => BoundNames(text[i]) \cap last.unreferenced = {}
            /\ (\E symbol \in last.symbols : symbol_scores(index, symbol) # <<>>) =>
                  \E i \in 1..Len(text) : IsImport(text[i])

\* C6 as amended: the list symbol_scores returns is sorted by score from
\* highest to lowest, and candidates with equal scores are in descending
\* lexical order of module path and then of member (the whole list is the
\* reverse of the natural order of the tuples).
C6_SortedInReverse ==
    last.op = "symbol_scores" =>
        \A i \in 1..(Len(last.scores) - 1) :
            LET a == last.scores[i]
                b == last.scores[i + 1]
            IN  /\ ~RLess(a.score, b.score)
                /\ a.score = b.score => ~StrLess(a.package, b.package)
                /\ (a.score = b.score /\ a.package = b.package) =>
                       ~OptStrLess(a.member, b.member)

\* C6 as stated: sorted by score from highest to lowest, candidates with
\* equal scores in the natural (ascending lexical) order of module path and
\* then of member.
C6_TiesInNaturalOrder ==
    last.op = "symbol_scores" =>
        \A i \in 1..(Len(last.scores) - 1) :
            LET a == last.scores[i]
                b == last.scores[i + 1]
            IN  /\ ~RLess(a.score, b.score)
                /\ a.score = b.score => ~StrLess(b.package, a.package)
                /\ (a.score = b.score /\ a.package = b.package) =>
                       ~OptStrLess(b.member, a.member)

\* C6, its case reached: two candidates with equal scores and different
\* module paths are returned
C6_Witness ==
    /\ last.op = "symbol_scores"
    /\ \E i \in 1..(Len(last.scores) - 1) :
          /\ last.scores[i].score = last.scores[i + 1].score
          /\ last.scores[i].package # last.scores[i + 1].package

\* C7: however an enter scope is left, once it has been left every child of
\* its object that is not in a non-empty export set has been removed.
C7_PrunedHoweverScopeIsLeft ==
    last.op \in {"exit", "raise", "enter"} =>
        \A tree \in (IF last.op = "exit" THEN {last.node} ELSE last.unwound) :
            LET exports == DOMAIN index.nodes[tree].exports
            IN  exports # {} => DOMAIN TreeOf(index, tree) \subseteq exports

\* the location of the deepest object a prefix of names leads to from node
RECURSIVE DeepestLocation(_, _, _)
DeepestLocation(H, node, names) ==
    IF names = <<>> THEN H.nodes[node].location
    ELSE LET sub == GetText(TreeOf(H, node), Head(names))
         IN  IF sub.kind # "node" THEN H.nodes[node].location
             ELSE DeepestLocation(H, sub.val, Tail(names))

\* C8: location_for(path) is the location of the deepest object reached
\* from the root by a prefix of path, each segment looked up among the
\* children of the object reached so far.
C8_LocationOfDeepestPrefix ==
    last.op = "location_for" =>
        last.location = DeepestLocation(index, Root, Split(last.path))

\* the places symbol_scores searches: every object reachable from the root
\* through nested objects, with the names walked to reach it
RECURSIVE SitesBelow(_, _, _)
SitesBelow(H, node, walked) ==
    LET children == TreeOf(H, node)
    IN  {[node |-> node, walked |-> walked]} \cup
        UNION { SitesBelow(H, children[k].val, Append(walked, Chars[k])) :
                    k \in {x \in DOMAIN children : children[x].kind = "node"} }

Sites(H) == SitesBelow(H, Root, <<>>)

\* scale(root) = 1.0 and scale(child) = child.score * scale(parent) - 0.1
RECURSIVE ScaleOf(_, _)
ScaleOf(H, walked) ==
    IF walked = <<>> THEN Rat(1, 1)
    ELSE LET parent == ScaleOf(H, SubSeq(walked, 1, Len(walked) - 1))
             child == H.nodes[FindFrom(H, Root, walked)]
         IN  Rat(child.score * parent.n * 10 - parent.d * 100, parent.d * 1000)

\* the number of leading segments of key that lead from node through nested objects
Resolved(H, node, key) ==
    CHOOSE m \in 0..Len(key) :
        /\ FindFrom(H, node, SubSeq(key, 1, m)) # 0
        /\ \A r \in (m + 1)..Len(key) : FindFrom(H, node, SubSeq(key, 1, r)) = 0

\* the sum of the scores of the objects the first m segments of key lead through
RECURSIVE PrefixScore(_, _, _, _)
PrefixScore(H, node, key, m) ==
    IF m = 0 THEN 0
    ELSE H.nodes[FindFrom(H, node, SubSeq(key, 1, m))].score
             + PrefixScore(H, node, key, m - 1)

\* the candidate the claim gives for key at a site, and its score before scaling
SiteMatch(H, site, key) ==
    LET m == Resolved(H, site.node, key)
        deepest == FindFrom(H, site.node, SubSeq(key, 1, m))
        next == IF m < Len(key) THEN GetText(TreeOf(H, deepest), key[m + 1]) ELSE NoneVal
        total == PrefixScore(H, site.node, key, m)
                     + (IF next.kind = "leaf" THEN next.val ELSE 0)
    IN  [total |-> total,
         tuple |-> [score |-> RMul(Rat(total, 100), ScaleOf(H, site.walked)),
                    package |-> Join(site.walked \o SubSeq(key, 1, m)),
                    member |-> IF next.kind = "leaf" THEN key[m + 1] ELSE PyNone]]

InScores(t, scores) == \E i \in 1..Len(scores) : scores[i] = t

\* C9: the candidates symbol_scores returns are, for every object X of the
\* tree whose match scores above 0.1, the tuple (score, module path, member)
\* with score = (the sum of the scores of the nested objects the leading
\* segments lead through from X, plus the leaf's score when the walk ends at
\* a leaf) * scale(X); so a leaf scoring above 0.1 is returned for its bare
\* name with the dotted path of its object and its name, and a query whose
\* leading segments lead from the root through objects and whose next
\* segment is absent returns (the sum of their scores, their path, None).
C9_ScoresAreScaledSums ==
    last.op = "symbol_scores" =>
        LET key == Split(last.symbol)
            found == {site \in Sites(index) : SiteMatch(index, site, key).total > NoiseThreshold}
        IN  /\ \A site \in found : InScores(SiteMatch(index, site, key).tuple, last.scores)
            /\ \A i \in 1..Len(last.scores) :
                  \E site \in found : last.scores[i] = SiteMatch(index, site, key).tuple
            /\ Len(last.scores) = Cardinality(found)
            /\ Len(key) = 1 =>
                  \A site \in Sites(index) :
                      LET leaf == GetText(TreeOf(index, site.node), key[1])
                      IN  (leaf.kind = "leaf" /\ leaf.val > NoiseThreshold) =>
                              InScores([score |-> RMul(Rat(leaf.val, 100),
                                                       ScaleOf(index, site.walked)),
                                        package |-> Join(site.walked),
                                        member |-> key[1]], last.scores)
            /\ \A m \in 1..(Len(key) - 1) :
                  LET node == FindFrom(index, Root, SubSeq(key, 1, m))
                  IN  (node # 0 /\ GetText(TreeOf(index, node), key[m + 1]).kind = "none") =>
                          InScores([score |-> Rat(PrefixScore(index, Root, key, m), 100),
                                    package |-> Join(SubSeq(key, 1, m)),
                                    member |-> PyNone], last.scores)

\* C9, its case reached: the bare name of a leaf is looked up and the leaf is
\* found in a nested object, where the scale is not 1.0
C9_Witness ==
    /\ last.op = "symbol_scores"
    /\ Len(Split(last.symbol)) = 1
    /\ \E i \in 1..Len(last.scores) :
          /\ last.scores[i].member = last.symbol
          /\ Len(Split(last.scores[i].package)) = 2

\* C10: no candidate in the list symbol_scores returns has a score of 0.1 or less.
C10_NoCandidateAtOrBelowNoise ==
    last.op = "symbol_scores" =>
        \A i \in 1..Len(last.scores) :
            RLess(Float(NoiseThreshold), last.scores[i].score)

\* C11: in every state in which both the alias object os.path and the root
\* object of the physical path module exist, the two hold one children
\* mapping (so their children are identical, and a child added or removed
\* through one is seen through the other).
C11_AliasSharesChildren ==
    LET alias == find(index, Join(<<Chars[AliasPath[1]], Chars[AliasPath[2]]>>))
        physical == find(index, Chars[PhysicalPathModule])
    IN  (alias # 0 /\ physical # 0) =>
            index.nodes[alias].tree = index.nodes[physical].tree

\* the objects of the subtree of node: node and the objects nested in it
RECURSIVE SubtreeIds(_, _)
SubtreeIds(H, node) ==
    IF node > Len(H.nodes) THEN {}
    ELSE LET children == TreeOf(H, node)
         IN  {node} \cup
             UNION { SubtreeIds(H, children[k].val) :
                         k \in {x \in DOMAIN children : children[x].kind = "node"} }

\* the objects that are in the subtree of the module index_file entered,
\* before the call or after it
InsideModule == SubtreeIds(last.before, last.node) \cup SubtreeIds(index, last.node)

\* the children of object n are the same in H0 and H1, the entry of name aside
SameChildrenBut(H0, H1, n, name) ==
    /\ Remove(TreeOf(H1, n), name) = Remove(TreeOf(H0, n), name)
    /\ H1.nodes[n].score = H0.nodes[n].score

\* the children and the score of object n are the same in H0 and H1
SameChildren(H0, H1, n) ==
    /\ TreeOf(H1, n) = TreeOf(H0, n)
    /\ H1.nodes[n].score = H0.nodes[n].score

\* C12: indexing or re-indexing one module through an enter(name) scope
\* changes only the module's own subtree: every object that is neither the
\* module entered nor nested in it has the same children with the same
\* scores after the scope has exited as before it was entered.  (The entry
\* of the module itself in the object it was entered from counts as the
\* module's own.)
C12_OnlyOwnSubtreeChanges ==
    (last.op = "index_file" /\ ~last.raised) =>
        \A n \in (1..Len(last.before.nodes)) \ InsideModule :
            IF n = last.self
            THEN SameChildrenBut(last.before, index, n, last.name)
            ELSE SameChildren(last.before, index, n)

\* C12 as amended: the same for every object outside the module's subtree
\* that holds the children mapping of no object of the subtree; where such
\* an object holds the mapping of the object the module was entered from, the
\* module's own entry aside.
C12_OnlyOwnMappingsChange ==
    (last.op = "index_file" /\ ~last.raised) =>
        \A n \in (1..Len(last.before.nodes)) \ InsideModule :
            \/ \E m \in InsideModule : index.nodes[m].tree = index.nodes[n].tree
            \/ IF index.nodes[n].tree = index.nodes[last.self].tree
               THEN SameChildrenBut(last.before, index, n, last.name)
               ELSE SameChildren(last.before, index, n)

\* C12, its case reached: a module that was in the index is indexed again,
\* its children change, and the object it was entered from holds a mapping
\* of its own
C12_Witness ==
    /\ last.op = "index_file" /\ ~last.raised
    /\ last.node <= Len(last.before.nodes)
    /\ TreeOf(index, last.node) # TreeOf(last.before, last.node)
    /\ \A m \in InsideModule : index.nodes[m].tree # index.nodes[last.self].tree

====
